---- MODULE Spec2Model ----
(***************************************************************************)
(* SNTP client query engine (package ntp): Query, QueryWithOptions, TimeV,  *)
(* Time and getTime of src/defaultHandler.go, lines 103-228.                *)
(*                                                                         *)
(* One invocation of a public operation is modelled step by step: the      *)
(* version check, the construction of the request, the exchange through    *)
(* the caller-supplied transport function rawFunc, the decoding of the     *)
(* returned buffer, the validation of the reply and the computation of the *)
(* value handed back to the caller.  The transport, the secure random      *)
(* source and the local clock are the environment: their outcomes are      *)
(* chosen nondeterministically from small sets.                            *)
(*                                                                         *)
(* Scaling.  time.Time is a number of clock ticks since the NTP epoch,     *)
(* Second ticks to the second (1e9 ns in Go).  An ntpTime is               *)
(* seconds * FracPerSecond + fraction (2^32 fraction units to the second   *)
(* in Go).  Packets are genuine sequences of 48 bytes.                     *)
(***************************************************************************)
EXTENDS Integers, Sequences, FiniteSets, TLC

VARIABLES
    pc,         \* position of the invocation
    api,        \* public operation that was called
    opt,        \* opt.Version as passed to getTime
    version,    \* opt.Version after defaulting
    clock,      \* reading of the local clock (ticks since the NTP epoch)
    rnd,        \* outcome of rand.Read: whether it succeeded, and the 64 bits
    xmitMsg,    \* request message (<<>> until built)
    xmitTime,   \* local send instant recorded by getTime
    sent,       \* sequence of byte buffers handed to rawFunc, in call order
    recBuf,     \* buffer returned by rawFunc
    rawErr,     \* error returned by rawFunc
    recvMsg,    \* reply message as decoded (<<>> until decoded)
    delta,      \* time.Since(xmitTime) as measured after decoding
    m,          \* message returned by getTime (<<>> is nil)
    recvTime,   \* receive timestamp returned by getTime
    err,        \* error returned by getTime
    ret         \* what the public operation returned to its caller

vars == <<pc, api, opt, version, clock, rnd, xmitMsg, xmitTime, sent, recBuf,
          rawErr, recvMsg, delta, m, recvTime, err, ret>>

----------------------------------------------------------------------------
(* Bounds of the model *)

\* largest initial reading of the local clock, in ticks
MaxClock == 2
\* largest elapsed time between send and receive, in ticks
MaxDelta == 1
\* largest NTP timestamp a reply carries in ReceiveTime and TransmitTime
MaxNtp == 2
\* largest value the secure random source yields for the 64 random bits
MaxRand == 1
\* clock ticks per second (1e9 nanoseconds in the program)
Second == 2
\* NTP fraction units per second (2^32 in the program)
FracPerSecond == 4

----------------------------------------------------------------------------
(* Program constants *)

defaultNtpVersion == 4
client == 3
server == 4
LeapNoWarning == 0
LeapNotInSync == 3
\* size in bytes of the wire form of a msg
PacketSize == 48
\* largest stratum of a usable server
maxStratum == 16

Nil == <<>>
NoError == "nil"

\* error values of getTime
InvalidVersion == "invalid protocol version requested"
ClockRanBackwards == "client clock ticked backwards"
UnexpectedMode == "invalid mode in response"
InvalidTransmitTime == "invalid transmit time in response"
OriginMismatch == "server response mismatch"
ServerClockRanBackwards == "server clock ticked backwards"
\* errors of binary.Read on a buffer that holds fewer bytes than a msg
ErrEOF == "EOF"
ErrUnexpectedEOF == "unexpected EOF"
MalformedPacket == {ErrEOF, ErrUnexpectedEOF}
\* error of the transport (timeout, DNS failure, connection refused, ...)
ErrTransport == "i/o timeout"
\* errors of Response.Validate
ErrUnsynchronized == "unsynchronized server"
ErrInvalidStratum == "invalid stratum in response"

----------------------------------------------------------------------------
(* Wire codec: the msg type, its header byte, its 48-byte wire form and    *)
(* the ntpTime conversions.                                                *)

\* new(msg): every field zero
ZeroMsg ==
    [LiVnMode |-> 0, Stratum |-> 0, Poll |-> 0, Precision |-> 0,
     RootDelay |-> 0, RootDispersion |-> 0, ReferenceID |-> 0,
     ReferenceTime |-> 0, OriginTime |-> 0, ReceiveTime |-> 0,
     TransmitTime |-> 0]

\* header byte: LeapIndicator (2 bits) | Version (3 bits) | Mode (3 bits)
setMode(msg, md) ==
    [msg EXCEPT !.LiVnMode = (msg.LiVnMode \div 8) * 8 + md]

setVersion(msg, v) ==
    [msg EXCEPT !.LiVnMode =
        (msg.LiVnMode \div 64) * 64 + v * 8 + (msg.LiVnMode % 8)]

setLeap(msg, li) ==
    [msg EXCEPT !.LiVnMode = li * 64 + (msg.LiVnMode % 64)]

getMode(msg) == msg.LiVnMode % 8

getVersion(msg) == (msg.LiVnMode \div 8) % 8

getLeap(msg) == msg.LiVnMode \div 64

\* the k bytes of n, most significant first
RECURSIVE BigEndian(_, _)
BigEndian(n, k) ==
    IF k = 0 THEN <<>> ELSE Append(BigEndian(n \div 256, k - 1), n % 256)

\* the number whose big-endian bytes are bs
RECURSIVE Uint(_)
Uint(bs) ==
    IF Len(bs) = 0 THEN 0
    ELSE Uint(SubSeq(bs, 1, Len(bs) - 1)) * 256 + bs[Len(bs)]

\* binary.Write(w, binary.BigEndian, msg): the fields in declaration order
Encode(msg) ==
    <<msg.LiVnMode, msg.Stratum, msg.Poll, msg.Precision>>
    \o BigEndian(msg.RootDelay, 4)
    \o BigEndian(msg.RootDispersion, 4)
    \o BigEndian(msg.ReferenceID, 4)
    \o BigEndian(msg.ReferenceTime, 8)
    \o BigEndian(msg.OriginTime, 8)
    \o BigEndian(msg.ReceiveTime, 8)
    \o BigEndian(msg.TransmitTime, 8)

\* the msg held by the first PacketSize bytes of bs
DecodeFields(bs) ==
    [LiVnMode |-> bs[1], Stratum |-> bs[2], Poll |-> bs[3],
     Precision |-> bs[4],
     RootDelay |-> Uint(SubSeq(bs, 5, 8)),
     RootDispersion |-> Uint(SubSeq(bs, 9, 12)),
     ReferenceID |-> Uint(SubSeq(bs, 13, 16)),
     ReferenceTime |-> Uint(SubSeq(bs, 17, 24)),
     OriginTime |-> Uint(SubSeq(bs, 25, 32)),
     ReceiveTime |-> Uint(SubSeq(bs, 33, 40)),
     TransmitTime |-> Uint(SubSeq(bs, 41, 48))]

\* toNtpTime(t): whole seconds since the epoch, and the rest of the second
\* scaled to fraction units
toNtpTime(t) ==
    (t \div Second) * FracPerSecond + ((t % Second) * FracPerSecond) \div Second

\* ntpTime.Time(): epoch + seconds + fraction scaled to clock ticks
toTime(n) ==
    (n \div FracPerSecond) * Second + ((n % FracPerSecond) * Second) \div FracPerSecond

\* a.Time().Sub(b.Time()): the duration from timestamp b to timestamp a
Sub(a, b) == toTime(a) - toTime(b)

\* division of a duration by 2, truncating toward zero
Half(d) == IF d >= 0 THEN d \div 2 ELSE 0 - ((0 - d) \div 2)

----------------------------------------------------------------------------
(* Query engine: the steps of getTime and of its callers                   *)

\* if opt.Version == 0 { opt.Version = defaultNtpVersion }
EffectiveVersion(v) == IF v = 0 THEN defaultNtpVersion ELSE v

\* a version check whose upper limit is one too high
VersionValidUpTo5(v) == ~(v < 2 \/ v > 5)

\* the negation of: opt.Version < 2 || opt.Version > 4
VersionValid(v) == ~(v < 2 \/ v > 4)

\* a request on which the leap indicator is never set
NewRequestNoLeap(v) == setVersion(setMode(ZeroMsg, client), v)

\* xmitMsg := new(msg); setMode(client); setVersion(opt.Version);
\* setLeap(LeapNotInSync)
NewRequest(v) == setLeap(setVersion(setMode(ZeroMsg, client), v), LeapNotInSync)

\* a TransmitTime always taken from the local clock
WireTransmitTimeClock(randOk, bits, now) == toNtpTime(now)

\* the TransmitTime placed in the request: the random 64 bits when rand.Read
\* succeeded, else the NTP form of the local clock at send time
WireTransmitTime(randOk, bits, now) == IF randOk THEN bits ELSE toNtpTime(now)

\* a read that does not report a short buffer: the fields stay zero
BinaryReadIgnoringShort(buf) ==
    IF Len(buf) = 0 THEN [err |-> ErrEOF, msg |-> ZeroMsg]
    ELSE IF Len(buf) < PacketSize THEN [err |-> NoError, msg |-> ZeroMsg]
    ELSE [err |-> NoError, msg |-> DecodeFields(SubSeq(buf, 1, PacketSize))]

\* binary.Read(bytes.NewReader(recBuf), binary.BigEndian, recvMsg): reads
\* the first PacketSize bytes; EOF when there is none, unexpected EOF when
\* there are too few; bytes after the first PacketSize are left unread
BinaryRead(buf) ==
    IF Len(buf) = 0 THEN [err |-> ErrEOF, msg |-> ZeroMsg]
    ELSE IF Len(buf) < PacketSize THEN [err |-> ErrUnexpectedEOF, msg |-> ZeroMsg]
    ELSE [err |-> NoError, msg |-> DecodeFields(SubSeq(buf, 1, PacketSize))]

\* an elapsed-time check that also rejects a zero elapsed time
DeltaOkStrict(d) == ~(d <= 0)

\* the negation of: delta < 0
DeltaOk(d) == ~(d < 0)

\* a mode check against the wrong mode
ModeOkClient(recv) == ~(getMode(recv) # client)

\* the negation of: recvMsg.getMode() != server
ModeOk(recv) == ~(getMode(recv) # server)

\* a transmit-time check that reads the wrong field
TransmitTimeOkReceive(recv) == ~(recv.ReceiveTime = 0)

\* the negation of: recvMsg.TransmitTime == ntpTime(0)
TransmitTimeOk(recv) == ~(recv.TransmitTime = 0)

\* an origin check with the wrong comparison: only an older OriginTime
\* is rejected
OriginOkNotOlder(recv, xmit) == ~(recv.OriginTime < xmit.TransmitTime)

\* the negation of: recvMsg.OriginTime != xmitMsg.TransmitTime
OriginOk(recv, xmit) == ~(recv.OriginTime # xmit.TransmitTime)

\* a server clock check that also rejects equal timestamps
ServerClockOkStrict(recv) == ~(recv.ReceiveTime >= recv.TransmitTime)

\* the negation of: recvMsg.ReceiveTime > recvMsg.TransmitTime
ServerClockOk(recv) == ~(recv.ReceiveTime > recv.TransmitTime)

\* the reply checks without the last one
ReplyErrorNoServerClock(d, recv, xmit) ==
    IF ~DeltaOk(d) THEN ClockRanBackwards
    ELSE IF ~ModeOk(recv) THEN UnexpectedMode
    ELSE IF ~TransmitTimeOk(recv) THEN InvalidTransmitTime
    ELSE IF ~OriginOk(recv, xmit) THEN OriginMismatch
    ELSE NoError

\* the error of the first check that rejects the reply, in the order of the
\* code; NoError when every check passes
ReplyError(d, recv, xmit) ==
    IF ~DeltaOk(d) THEN ClockRanBackwards
    ELSE IF ~ModeOk(recv) THEN UnexpectedMode
    ELSE IF ~TransmitTimeOk(recv) THEN InvalidTransmitTime
    ELSE IF ~OriginOk(recv, xmit) THEN OriginMismatch
    ELSE IF ~ServerClockOk(recv) THEN ServerClockRanBackwards
    ELSE NoError

\* the reply returned with the echoed OriginTime left in place
CorrectOriginSkipped(recv, t) == recv

\* recvMsg.OriginTime = toNtpTime(xmitTime)
CorrectOrigin(recv, t) == [recv EXCEPT !.OriginTime = toNtpTime(t)]

\* recvTime := toNtpTime(xmitTime.Add(delta))
ReceiveTimestamp(t, d) == toNtpTime(t + d)

\* a Response whose offset subtracts the second difference
parseTimeOffsetSign(msg, dst) ==
    [RoundTripDelay |->
        Sub(dst, msg.OriginTime) - Sub(msg.TransmitTime, msg.ReceiveTime),
     ClockOffset |->
        Half(Sub(msg.ReceiveTime, msg.OriginTime) - Sub(msg.TransmitTime, dst)),
     Stratum |-> msg.Stratum,
     Leap |-> getLeap(msg),
     Poll |-> msg.Poll,
     Precision |-> msg.Precision,
     RootDelay |-> msg.RootDelay,
     RootDispersion |-> msg.RootDispersion,
     RootDistance |-> Half(msg.RootDelay) + msg.RootDispersion,
     ReferenceID |-> msg.ReferenceID]

\* parseTime(m, recvTime): the Response record, with t1 = m.OriginTime,
\* t2 = m.ReceiveTime, t3 = m.TransmitTime, t4 = recvTime
parseTime(msg, dst) ==
    [RoundTripDelay |->
        Sub(dst, msg.OriginTime) - Sub(msg.TransmitTime, msg.ReceiveTime),
     ClockOffset |->
        Half(Sub(msg.ReceiveTime, msg.OriginTime) + Sub(msg.TransmitTime, dst)),
     Stratum |-> msg.Stratum,
     Leap |-> getLeap(msg),
     Poll |-> msg.Poll,
     Precision |-> msg.Precision,
     RootDelay |-> msg.RootDelay,
     RootDispersion |-> msg.RootDispersion,
     RootDistance |-> Half(msg.RootDelay) + msg.RootDispersion,
     ReferenceID |-> msg.ReferenceID]

\* Response.Validate()
Validate(r) ==
    IF r.Leap = LeapNotInSync THEN ErrUnsynchronized
    ELSE IF r.Stratum = 0 \/ r.Stratum >= maxStratum THEN ErrInvalidStratum
    ELSE NoError

----------------------------------------------------------------------------
(* Environment *)

Apis == {"Query", "QueryWithOptions", "TimeV", "Time"}

\* values a caller passes as QueryOptions.Version or as TimeV's version
Versions == {0 - 1, 0, 1, 2, 3, 4, 5}

\* opt.Version that reaches getTime from each public operation
OptionsOf(a) ==
    CASE a = "Query" -> {0}
      [] a = "Time" -> {defaultNtpVersion}
      [] OTHER -> Versions

\* time.Since(xmitTime): never negative with a monotonic clock; negative
\* when the wall clock was set back and no monotonic reading is used
Deltas == {0 - 1} \cup (0 .. MaxDelta)

\* (leap indicator, stratum) of the servers that answer
ServerStates ==
    {<<LeapNoWarning, 1>>, <<LeapNotInSync, 1>>, <<LeapNoWarning, maxStratum>>}

\* the messages a peer may answer to request req: any mode, any server
\* state, the request's TransmitTime echoed in OriginTime or not
ReplyMsgs(req) ==
    { [setLeap(setVersion(setMode(ZeroMsg, md), getVersion(req)), ss[1])
         EXCEPT !.Stratum = ss[2], !.OriginTime = org,
                !.ReceiveTime = rx, !.TransmitTime = tx] :
        md \in {client, server}, ss \in ServerStates,
        org \in {req.TransmitTime, req.TransmitTime + 1},
        rx \in 0 .. MaxNtp, tx \in 0 .. MaxNtp }

\* the buffers rawFunc may return for request req: nothing, a truncated
\* packet, a whole packet, a packet followed by one more byte
ReplyBuffers(req) ==
    {<<>>, SubSeq(Encode(req), 1, PacketSize - 1)}
    \cup { Encode(r) : r \in ReplyMsgs(req) }
    \cup { Append(Encode(r), 0) : r \in ReplyMsgs(req) }

\* the errors rawFunc may return, with any buffer
RawErrors == {NoError, ErrTransport}

----------------------------------------------------------------------------
(* Actions *)

Init ==
    /\ pc = "idle"
    /\ api = "none"
    /\ opt = 0
    /\ version = 0
    /\ clock \in 1 .. MaxClock
    /\ rnd = Nil
    /\ xmitMsg = Nil
    /\ xmitTime = 0
    /\ sent = <<>>
    /\ recBuf = <<>>
    /\ rawErr = NoError
    /\ recvMsg = Nil
    /\ delta = 0
    /\ m = Nil
    /\ recvTime = 0
    /\ err = NoError
    /\ ret = Nil

\* A public operation is called and getTime checks the version.
Call ==
    /\ pc = "idle"
    /\ \E a \in Apis : \E v \in OptionsOf(a) :
        /\ api' = a
        /\ opt' = v
        /\ version' = EffectiveVersion(v)
        /\ IF VersionValid(EffectiveVersion(v))
           THEN /\ pc' = "build"
                /\ UNCHANGED <<m, recvTime, err>>
           ELSE /\ pc' = "returned"
                /\ m' = Nil
                /\ recvTime' = 0
                /\ err' = InvalidVersion
    /\ UNCHANGED <<clock, rnd, xmitMsg, xmitTime, sent, recBuf, rawErr, recvMsg,
                   delta, ret>>

\* getTime builds the request and records the local send instant.
BuildRequest ==
    /\ pc = "build"
    /\ \E randOk \in BOOLEAN : \E bits \in 0 .. MaxRand :
        /\ randOk \/ bits = 0
        /\ rnd' = <<[ok |-> randOk, bits |-> bits]>>
        /\ xmitMsg' = <<[NewRequest(version) EXCEPT
                          !.TransmitTime = WireTransmitTime(randOk, bits, clock)]>>
    /\ xmitTime' = clock
    /\ pc' = "send"
    /\ UNCHANGED <<api, opt, version, clock, sent, recBuf, rawErr, recvMsg,
                   delta, m, recvTime, err, ret>>

\* getTime encodes the request and calls rawFunc, which returns a buffer
\* and an error.
Exchange ==
    /\ pc = "send"
    /\ sent' = Append(sent, Encode(xmitMsg[1]))
    /\ \E buf \in ReplyBuffers(xmitMsg[1]) : \E e \in RawErrors :
        /\ recBuf' = buf
        /\ rawErr' = e
    /\ pc' = "decode"
    /\ UNCHANGED <<api, opt, version, clock, rnd, xmitMsg, xmitTime, recvMsg,
                   delta, m, recvTime, err, ret>>

\* a decoding step that calls rawFunc again when the buffer does not decode
DecodeRetry ==
    /\ pc = "decode"
    /\ LET r == BinaryRead(recBuf) IN
        IF r.err # NoError
        THEN /\ pc' = "send"
             /\ UNCHANGED recvMsg
        ELSE /\ pc' = "check"
             /\ recvMsg' = <<r.msg>>
    /\ UNCHANGED <<api, opt, version, clock, rnd, xmitMsg, xmitTime, sent, recBuf,
                   rawErr, delta, m, recvTime, err, ret>>

\* getTime decodes the returned buffer; the error of the decoding replaces
\* the error rawFunc returned.
Decode ==
    /\ pc = "decode"
    /\ LET r == BinaryRead(recBuf) IN
        IF r.err # NoError
        THEN /\ pc' = "returned"
             /\ m' = Nil
             /\ recvTime' = 0
             /\ err' = r.err
             /\ UNCHANGED recvMsg
        ELSE /\ pc' = "check"
             /\ recvMsg' = <<r.msg>>
             /\ UNCHANGED <<m, recvTime, err>>
    /\ UNCHANGED <<api, opt, version, clock, rnd, xmitMsg, xmitTime, sent, recBuf,
                   rawErr, delta, ret>>

\* a checking step that overwrites OriginTime before the reply is checked
CheckReplyOverwriteFirst ==
    /\ pc = "check"
    /\ \E d \in Deltas :
        /\ delta' = d
        /\ clock' = xmitTime + d
        /\ LET corrected == CorrectOrigin(recvMsg[1], xmitTime)
               e == ReplyError(d, corrected, xmitMsg[1])
           IN
            IF e # NoError
            THEN /\ m' = Nil
                 /\ recvTime' = 0
                 /\ err' = e
            ELSE /\ m' = <<corrected>>
                 /\ recvTime' = ReceiveTimestamp(xmitTime, d)
                 /\ err' = NoError
    /\ pc' = "returned"
    /\ UNCHANGED <<api, opt, version, rnd, xmitMsg, xmitTime, sent, recBuf,
                   rawErr, recvMsg, ret>>

\* getTime measures the elapsed time, checks the reply and returns.
CheckReply ==
    /\ pc = "check"
    /\ \E d \in Deltas :
        /\ delta' = d
        /\ clock' = xmitTime + d
        /\ LET e == ReplyError(d, recvMsg[1], xmitMsg[1]) IN
            IF e # NoError
            THEN /\ m' = Nil
                 /\ recvTime' = 0
                 /\ err' = e
            ELSE /\ m' = <<CorrectOrigin(recvMsg[1], xmitTime)>>
                 /\ recvTime' = ReceiveTimestamp(xmitTime, d)
                 /\ err' = NoError
    /\ pc' = "returned"
    /\ UNCHANGED <<api, opt, version, rnd, xmitMsg, xmitTime, sent, recBuf, rawErr,
                   recvMsg, ret>>

\* What QueryWithOptions (and Query) returns from the result of getTime.
QueryResult(msg, dst, e) ==
    IF e # NoError
    THEN [resp |-> Nil, time |-> Nil, err |-> e]
    ELSE [resp |-> <<parseTime(msg[1], dst)>>, time |-> Nil, err |-> NoError]

\* What TimeV (and Time) returns from the result of getTime, now being the
\* reading of time.Now().
TimeResult(msg, dst, e, now) ==
    IF e # NoError
    THEN [resp |-> Nil, time |-> <<now>>, err |-> e]
    ELSE LET r == parseTime(msg[1], dst) IN
         IF Validate(r) # NoError
         THEN [resp |-> Nil, time |-> <<now>>, err |-> Validate(r)]
         ELSE [resp |-> Nil, time |-> <<now + r.ClockOffset>>, err |-> NoError]

\* The public operation returns to its caller.
Return ==
    /\ pc = "returned"
    /\ ret' = IF api \in {"Query", "QueryWithOptions"}
              THEN <<QueryResult(m, recvTime, err)>>
              ELSE <<TimeResult(m, recvTime, err, clock)>>
    /\ pc' = "done"
    /\ UNCHANGED <<api, opt, version, clock, rnd, xmitMsg, xmitTime, sent, recBuf,
                   rawErr, recvMsg, delta, m, recvTime, err>>

Next == Call \/ BuildRequest \/ Exchange \/ Decode \/ CheckReply \/ Return

Spec == Init /\ [][Next]_vars

----------------------------------------------------------------------------
(* The offset and delay arithmetic on its own: QueryWithOptions applies    *)
(* parseTime to a message and a receive timestamp that getTime returned    *)
(* without error, the four timestamps being any of the synthetic values.   *)

\* synthetic NTP timestamps: 0 to 2.0 s
ParseStamps == 0 .. 2 * FracPerSecond

InitParse ==
    /\ pc = "returned"
    /\ api = "QueryWithOptions"
    /\ opt = 0
    /\ version = defaultNtpVersion
    /\ clock = 1
    /\ rnd = Nil
    /\ xmitMsg = Nil
    /\ xmitTime = 0
    /\ sent = <<>>
    /\ recBuf = <<>>
    /\ rawErr = NoError
    /\ recvMsg = Nil
    /\ delta = 0
    /\ \E t1 \in ParseStamps, t2 \in ParseStamps, t3 \in ParseStamps :
        m = <<[setMode(ZeroMsg, server) EXCEPT
                 !.OriginTime = t1, !.ReceiveTime = t2, !.TransmitTime = t3]>>
    /\ recvTime \in ParseStamps
    /\ err = NoError
    /\ ret = Nil

SpecParse == InitParse /\ [][Return]_vars

----------------------------------------------------------------------------
(* Two concurrent invocations of QueryWithOptions, each with its own       *)
(* transport function.  Every variable but the clock holds one value per   *)
(* invocation: they are the locals of that invocation of getTime.  The     *)
(* clock and the random source are shared and only read.                   *)

Procs == {1, 2}

Other(p) == 3 - p

\* versions the two callers pass
ConcVersions == {0, 5}

\* getTime run on its own, as a function of what one invocation reads:
\* the version v, the outcome r of rand.Read, the clock reading t at send
\* time, the buffer buf its transport returned and the elapsed time d
GetTimeAlone(v, r, t, buf, d) ==
    IF ~VersionValid(EffectiveVersion(v))
    THEN [m |-> Nil, recvTime |-> 0, err |-> InvalidVersion]
    ELSE LET req == [NewRequest(EffectiveVersion(v)) EXCEPT
                        !.TransmitTime = WireTransmitTime(r[1].ok, r[1].bits, t)]
             rd == BinaryRead(buf)
         IN  IF rd.err # NoError
             THEN [m |-> Nil, recvTime |-> 0, err |-> rd.err]
             ELSE IF ReplyError(d, rd.msg, req) # NoError
             THEN [m |-> Nil, recvTime |-> 0,
                   err |-> ReplyError(d, rd.msg, req)]
             ELSE [m |-> <<CorrectOrigin(rd.msg, t)>>,
                   recvTime |-> ReceiveTimestamp(t, d), err |-> NoError]

\* a request kept in one place for all invocations: the checks of p read
\* the request of the other invocation once that one is built
SharedRequest(p, xm) == IF xm[Other(p)] # Nil THEN xm[Other(p)] ELSE xm[p]

\* the request the checks of invocation p read: xmitMsg is a local of
\* getTime, allocated by that invocation
OwnRequest(p, xm) == xm[p]

\* the replies invocation p may receive: a server's answer that echoes
\* its own TransmitTime, or the TransmitTime of the other invocation's
\* request (an answer meant for the other one)
ConcReplyMsgs(p, xm) ==
    { [setLeap(setVersion(setMode(ZeroMsg, server), getVersion(xm[p][1])),
               LeapNoWarning)
         EXCEPT !.Stratum = 1, !.OriginTime = org,
                !.ReceiveTime = 1, !.TransmitTime = 1] :
        org \in {xm[q][1].TransmitTime : q \in {r \in Procs : xm[r] # Nil}} }

ConcReplyBuffers(p, xm) ==
    {SubSeq(Encode(xm[p][1]), 1, PacketSize - 1)}
    \cup { Encode(r) : r \in ConcReplyMsgs(p, xm) }

InitConc ==
    /\ pc = [p \in Procs |-> "idle"]
    /\ api = [p \in Procs |-> "QueryWithOptions"]
    /\ opt = [p \in Procs |-> 0]
    /\ version = [p \in Procs |-> 0]
    /\ clock \in 1 .. MaxClock
    /\ rnd = [p \in Procs |-> Nil]
    /\ xmitMsg = [p \in Procs |-> Nil]
    /\ xmitTime = [p \in Procs |-> 0]
    /\ sent = [p \in Procs |-> <<>>]
    /\ recBuf = [p \in Procs |-> <<>>]
    /\ rawErr = [p \in Procs |-> NoError]
    /\ recvMsg = [p \in Procs |-> Nil]
    /\ delta = [p \in Procs |-> 0]
    /\ m = [p \in Procs |-> Nil]
    /\ recvTime = [p \in Procs |-> 0]
    /\ err = [p \in Procs |-> NoError]
    /\ ret = [p \in Procs |-> Nil]

\* The local clock advances.
Tick ==
    /\ clock < MaxClock
    /\ clock' = clock + 1
    /\ UNCHANGED <<pc, api, opt, version, rnd, xmitMsg, xmitTime, sent, recBuf,
                   rawErr, recvMsg, delta, m, recvTime, err, ret>>

CallP(p) ==
    /\ pc[p] = "idle"
    /\ \E v \in ConcVersions :
        /\ opt' = [opt EXCEPT ![p] = v]
        /\ version' = [version EXCEPT ![p] = EffectiveVersion(v)]
        /\ IF VersionValid(EffectiveVersion(v))
           THEN /\ pc' = [pc EXCEPT ![p] = "build"]
                /\ UNCHANGED <<m, recvTime, err>>
           ELSE /\ pc' = [pc EXCEPT ![p] = "returned"]
                /\ m' = [m EXCEPT ![p] = Nil]
                /\ recvTime' = [recvTime EXCEPT ![p] = 0]
                /\ err' = [err EXCEPT ![p] = InvalidVersion]
    /\ UNCHANGED <<api, clock, rnd, xmitMsg, xmitTime, sent, recBuf, rawErr,
                   recvMsg, delta, ret>>

BuildRequestP(p) ==
    /\ pc[p] = "build"
    /\ \E randOk \in BOOLEAN : \E bits \in 0 .. MaxRand :
        /\ randOk \/ bits = 0
        /\ rnd' = [rnd EXCEPT ![p] = <<[ok |-> randOk, bits |-> bits]>>]
        /\ xmitMsg' = [xmitMsg EXCEPT ![p] =
                        <<[NewRequest(version[p]) EXCEPT
                            !.TransmitTime =
                                WireTransmitTime(randOk, bits, clock)]>>]
    /\ xmitTime' = [xmitTime EXCEPT ![p] = clock]
    /\ pc' = [pc EXCEPT ![p] = "send"]
    /\ UNCHANGED <<api, opt, version, clock, sent, recBuf, rawErr, recvMsg,
                   delta, m, recvTime, err, ret>>

ExchangeP(p) ==
    /\ pc[p] = "send"
    /\ sent' = [sent EXCEPT ![p] = Append(sent[p], Encode(xmitMsg[p][1]))]
    /\ \E buf \in ConcReplyBuffers(p, xmitMsg) : \E e \in RawErrors :
        /\ recBuf' = [recBuf EXCEPT ![p] = buf]
        /\ rawErr' = [rawErr EXCEPT ![p] = e]
    /\ pc' = [pc EXCEPT ![p] = "decode"]
    /\ UNCHANGED <<api, opt, version, clock, rnd, xmitMsg, xmitTime, recvMsg,
                   delta, m, recvTime, err, ret>>

DecodeP(p) ==
    /\ pc[p] = "decode"
    /\ LET r == BinaryRead(recBuf[p]) IN
        IF r.err # NoError
        THEN /\ pc' = [pc EXCEPT ![p] = "returned"]
             /\ m' = [m EXCEPT ![p] = Nil]
             /\ recvTime' = [recvTime EXCEPT ![p] = 0]
             /\ err' = [err EXCEPT ![p] = r.err]
             /\ UNCHANGED recvMsg
        ELSE /\ pc' = [pc EXCEPT ![p] = "check"]
             /\ recvMsg' = [recvMsg EXCEPT ![p] = <<r.msg>>]
             /\ UNCHANGED <<m, recvTime, err>>
    /\ UNCHANGED <<api, opt, version, clock, rnd, xmitMsg, xmitTime, sent,
                   recBuf, rawErr, delta, ret>>

CheckReplyP(p) ==
    /\ pc[p] = "check"
    /\ \E d \in Deltas :
        /\ delta' = [delta EXCEPT ![p] = d]
        /\ LET e == ReplyError(d, recvMsg[p][1], OwnRequest(p, xmitMsg)[1]) IN
            IF e # NoError
            THEN /\ m' = [m EXCEPT ![p] = Nil]
                 /\ recvTime' = [recvTime EXCEPT ![p] = 0]
                 /\ err' = [err EXCEPT ![p] = e]
            ELSE /\ m' = [m EXCEPT ![p] =
                            <<CorrectOrigin(recvMsg[p][1], xmitTime[p])>>]
                 /\ recvTime' = [recvTime EXCEPT ![p] =
                                    ReceiveTimestamp(xmitTime[p], d)]
                 /\ err' = [err EXCEPT ![p] = NoError]
    /\ pc' = [pc EXCEPT ![p] = "returned"]
    /\ UNCHANGED <<api, opt, version, clock, rnd, xmitMsg, xmitTime, sent,
                   recBuf, rawErr, recvMsg, ret>>

ReturnP(p) ==
    /\ pc[p] = "returned"
    /\ ret' = [ret EXCEPT ![p] = <<QueryResult(m[p], recvTime[p], err[p])>>]
    /\ pc' = [pc EXCEPT ![p] = "done"]
    /\ UNCHANGED <<api, opt, version, clock, rnd, xmitMsg, xmitTime, sent,
                   recBuf, rawErr, recvMsg, delta, m, recvTime, err>>

Step(p) ==
    CallP(p) \/ BuildRequestP(p) \/ ExchangeP(p) \/ DecodeP(p)
        \/ CheckReplyP(p) \/ ReturnP(p)

NextConc == Tick \/ \E p \in Procs : Step(p)

SpecConc == InitConc /\ [][NextConc]_vars

----------------------------------------------------------------------------
(* Vocabulary of the properties *)

\* the public operation has returned
Done == pc = "done"

\* what it returned
Result == ret[1]

\* number of calls of rawFunc so far
TransportCalls == Len(sent)

\* the operations that return a Response
QueryApis == {"Query", "QueryWithOptions"}

\* the operations that return a time
TimeApis == {"TimeV", "Time"}

\* rawFunc was called and returned a buffer that decodes
Decoded == recvMsg # Nil

\* the reply as decoded
Reply == recvMsg[1]

\* the TransmitTime of the request as it went over the wire
OnWireTransmitTime == DecodeFields(sent[1]).TransmitTime

\* the invocation failed and handed back no Response
FailedWithoutResponse ==
    /\ Result.err # NoError
    /\ Result.resp = Nil
    /\ m = Nil

----------------------------------------------------------------------------
(* Properties *)

\* C1: any error returned by the transport function is returned unchanged
\* by Query/QueryWithOptions: whenever rawFunc returned a non-nil error,
\* whatever the buffer, the call fails with exactly that error.
C1_TransportErrorReturnedUnchanged ==
    (Done /\ api \in QueryApis /\ rawErr # NoError)
        => (Result.err = rawErr /\ Result.resp = Nil)

\* C2: QueryWithOptions with a non-zero Version outside {2,3,4} fails with
\* InvalidVersion and never calls the transport; Version 0 is treated as 4,
\* and Versions 0, 2, 3 and 4 pass the version check (the transport is
\* called and the failure, if any, is not InvalidVersion).
C2_InvalidVersionWithoutTransportCall ==
    (api = "QueryWithOptions")
        => /\ (opt # 0 /\ opt \notin {2, 3, 4})
                => /\ TransportCalls = 0
                   /\ err = InvalidVersion
                   /\ Done => (Result.err = InvalidVersion /\ Result.resp = Nil)
           /\ (opt = 0) => version = 4
           /\ (opt \in {0, 2, 3, 4})
                => /\ err # InvalidVersion
                   /\ Done => (TransportCalls = 1 /\ Result.err # InvalidVersion)

C2_Witness ==
    /\ Done
    /\ api = "QueryWithOptions"
    /\ opt = 5
    /\ Result.err = InvalidVersion
    /\ TransportCalls = 0

\* C3 as stated: for every decodable reply whose OriginTime differs from
\* the TransmitTime placed in the request, the query fails without a
\* Response, and with OriginMismatch when the reply's Mode is Server and
\* its TransmitTime is non-zero.
C3_OriginMismatchAsStated ==
    (Done /\ Decoded /\ Reply.OriginTime # OnWireTransmitTime)
        => /\ FailedWithoutResponse
           /\ (getMode(Reply) = server /\ Reply.TransmitTime # 0)
                => Result.err = OriginMismatch

\* C3 amended: for every decodable reply whose OriginTime differs from the
\* TransmitTime placed in the request, the query fails without a Response;
\* the failure is OriginMismatch when the reply's Mode is Server, its
\* TransmitTime is non-zero and the local elapsed time is not negative (a
\* negative elapsed time is reported first, as ClockRanBackwards).
C3_OriginMismatch ==
    (Done /\ Decoded /\ Reply.OriginTime # OnWireTransmitTime)
        => /\ FailedWithoutResponse
           /\ (getMode(Reply) = server /\ Reply.TransmitTime # 0 /\ delta >= 0)
                => Result.err = OriginMismatch
           /\ (getMode(Reply) = server /\ Reply.TransmitTime # 0 /\ delta < 0)
                => Result.err = ClockRanBackwards

C3_Witness ==
    /\ Done
    /\ Decoded
    /\ Reply.OriginTime # OnWireTransmitTime
    /\ getMode(Reply) = server
    /\ Reply.TransmitTime # 0
    /\ Reply.ReceiveTime <= Reply.TransmitTime
    /\ delta >= 0
    /\ Result.err = OriginMismatch

\* C4 as stated: for every decodable reply whose Mode is not Server,
\* QueryWithOptions fails with UnexpectedMode and returns no Response,
\* regardless of the reply's other fields.
C4_UnexpectedModeAsStated ==
    (Done /\ api \in QueryApis /\ Decoded /\ getMode(Reply) # server)
        => (FailedWithoutResponse /\ Result.err = UnexpectedMode)

\* C4 amended: for every decodable reply whose Mode is not Server,
\* QueryWithOptions fails and returns no Response, regardless of the
\* reply's other fields; the failure is UnexpectedMode when the local
\* elapsed time is not negative, and ClockRanBackwards when it is.
C4_UnexpectedMode ==
    (Done /\ api \in QueryApis /\ Decoded /\ getMode(Reply) # server)
        => /\ FailedWithoutResponse
           /\ (delta >= 0) => Result.err = UnexpectedMode
           /\ (delta < 0) => Result.err = ClockRanBackwards

\* a transport that echoes the request: Mode is Client, the other checks
\* would have rejected the reply as well
C4_Witness ==
    /\ Done
    /\ api = "QueryWithOptions"
    /\ Decoded
    /\ getMode(Reply) = client
    /\ Reply.TransmitTime = 0
    /\ Reply.OriginTime # OnWireTransmitTime
    /\ delta >= 0
    /\ Result.err = UnexpectedMode

\* C5 as stated: for every decodable reply whose TransmitTime is 0, the
\* query fails without a Response, and with InvalidTransmitTime when the
\* reply's Mode is Server.
C5_InvalidTransmitTimeAsStated ==
    (Done /\ Decoded /\ Reply.TransmitTime = 0)
        => /\ FailedWithoutResponse
           /\ (getMode(Reply) = server) => Result.err = InvalidTransmitTime

\* C5 amended: for every decodable reply whose TransmitTime is 0, the
\* query fails without a Response; the failure is InvalidTransmitTime when
\* the reply's Mode is Server and the local elapsed time is not negative,
\* and ClockRanBackwards when the elapsed time is negative.
C5_InvalidTransmitTime ==
    (Done /\ Decoded /\ Reply.TransmitTime = 0)
        => /\ FailedWithoutResponse
           /\ (getMode(Reply) = server /\ delta >= 0)
                => Result.err = InvalidTransmitTime
           /\ (delta < 0) => Result.err = ClockRanBackwards

C5_Witness ==
    /\ Done
    /\ Decoded
    /\ Reply.TransmitTime = 0
    /\ getMode(Reply) = server
    /\ Reply.OriginTime = OnWireTransmitTime
    /\ delta >= 0
    /\ Result.err = InvalidTransmitTime

\* C6 as stated: for every decodable reply whose ReceiveTime is greater
\* than its TransmitTime, the query fails without a Response, and with
\* ServerClockRanBackwards when Mode is Server, TransmitTime is non-zero
\* and OriginTime matches; a reply with ReceiveTime equal to TransmitTime
\* is not rejected by this check.
C6_ServerClockRanBackwardsAsStated ==
    /\ (Done /\ Decoded /\ Reply.ReceiveTime > Reply.TransmitTime)
        => /\ FailedWithoutResponse
           /\ (/\ getMode(Reply) = server
               /\ Reply.TransmitTime # 0
               /\ Reply.OriginTime = OnWireTransmitTime)
                => Result.err = ServerClockRanBackwards
    /\ (Done /\ Decoded /\ Reply.ReceiveTime = Reply.TransmitTime)
        => Result.err # ServerClockRanBackwards

\* C6 amended: for every decodable reply whose ReceiveTime is greater than
\* its TransmitTime, the query fails without a Response; the failure is
\* ServerClockRanBackwards when Mode is Server, TransmitTime is non-zero,
\* OriginTime matches and the local elapsed time is not negative (a
\* negative elapsed time is reported first, as ClockRanBackwards).  A reply
\* with ReceiveTime equal to TransmitTime is not rejected by this check:
\* it is accepted when it passes the other checks.
C6_ServerClockRanBackwards ==
    /\ (Done /\ Decoded /\ Reply.ReceiveTime > Reply.TransmitTime)
        => /\ FailedWithoutResponse
           /\ (/\ getMode(Reply) = server
               /\ Reply.TransmitTime # 0
               /\ Reply.OriginTime = OnWireTransmitTime
               /\ delta >= 0)
                => Result.err = ServerClockRanBackwards
           /\ (delta < 0) => Result.err = ClockRanBackwards
    /\ (Done /\ Decoded /\ Reply.ReceiveTime = Reply.TransmitTime)
        => /\ Result.err # ServerClockRanBackwards
           /\ (/\ getMode(Reply) = server
               /\ Reply.TransmitTime # 0
               /\ Reply.OriginTime = OnWireTransmitTime
               /\ delta >= 0)
                => err = NoError

C6_Witness ==
    /\ Done
    /\ Decoded
    /\ Reply.ReceiveTime > Reply.TransmitTime
    /\ getMode(Reply) = server
    /\ Reply.TransmitTime # 0
    /\ Reply.OriginTime = OnWireTransmitTime
    /\ delta >= 0
    /\ Result.err = ServerClockRanBackwards

C7_WitnessLong ==
    /\ Done
    /\ api \in QueryApis
    /\ Len(recBuf) = PacketSize + 1
    /\ Result.err = NoError
    /\ Result.resp # Nil

\* the failures C8 names: an invalid version, a transport that returned an
\* error, an undecodable reply, a rejected reply, a Validate() failure
C8_Failure ==
    \/ version \notin {2, 3, 4}
    \/ rawErr # NoError
    \/ (TransportCalls = 1 /\ ~Decoded)
    \/ (Decoded /\ ReplyError(delta, Reply, xmitMsg[1]) # NoError)
    \/ (m # Nil /\ Validate(parseTime(m[1], recvTime)) # NoError)

\* C8: TimeV and Time always return a time value; they return a nil error
\* only when the query succeeded and Validate() passed, and then the value
\* is local-now plus ClockOffset; on any failure (invalid version, a
\* transport that returns an error, an undecodable reply, a rejected
\* reply, a Validate() failure) they return local-now unadjusted and a
\* non-nil error.
C8_TimeFallsBackToLocalClock ==
    (Done /\ api \in TimeApis)
        => /\ Result.time # Nil
           /\ (Result.err = NoError)
                => /\ ~C8_Failure
                   /\ Result.time =
                        <<clock + parseTime(m[1], recvTime).ClockOffset>>
           /\ C8_Failure
                => (Result.err # NoError /\ Result.time = <<clock>>)

\* C9: each invocation calls the transport function at most once, and
\* exactly once when the requested version is valid; no failure causes a
\* second call.
C9_AtMostOneTransportCall ==
    /\ TransportCalls <= 1
    /\ (pc \in {"decode", "check"}) => TransportCalls = 1
    /\ Done => (TransportCalls = 1 <=> version \in {2, 3, 4})
    /\ (Done /\ opt \in {0, 2, 3, 4}) => TransportCalls = 1

\* the invocation failed on an undecodable reply that came with a
\* transport error, after one call
C9_Witness ==
    /\ Done
    /\ TransportCalls = 1
    /\ rawErr # NoError
    /\ Result.err \in MalformedPacket

\* the timestamps of C10, as instants of the local clock scale
C10_t1 == toTime(toNtpTime(xmitTime))
C10_t2 == toTime(Reply.ReceiveTime)
C10_t3 == toTime(Reply.TransmitTime)
C10_t4 == toTime(recvTime)

\* C10: for every successful query, RoundTripDelay = (t4 - t1) - (t3 - t2)
\* and ClockOffset = ((t2 - t1) + (t3 - t4)) / 2, t1 being the true local
\* send instant, t2 and t3 the reply's ReceiveTime and TransmitTime, t4
\* the local receive timestamp returned by getTime.
C10_DelayAndOffset ==
    (Done /\ api \in QueryApis /\ Result.err = NoError)
        => /\ Result.resp # Nil
           /\ Result.resp[1].RoundTripDelay =
                (C10_t4 - C10_t1) - (C10_t3 - C10_t2)
           /\ Result.resp[1].ClockOffset =
                Half((C10_t2 - C10_t1) + (C10_t3 - C10_t4))

\* a successful query whose on-wire TransmitTime was random and differs
\* from the send instant, with a non-zero offset
C10_Witness ==
    /\ Done
    /\ api \in QueryApis
    /\ Result.err = NoError
    /\ OnWireTransmitTime # toNtpTime(xmitTime)
    /\ delta > 0
    /\ Result.resp[1].ClockOffset # 0

\* the synthetic timestamps of C11: t1 = 0, t2 = 1.0 s, t3 = 1.0 s,
\* t4 = 2.0 s, handed to parseTime
C11_Synthetic ==
    /\ Done
    /\ m # Nil
    /\ m[1].OriginTime = 0
    /\ m[1].ReceiveTime = FracPerSecond
    /\ m[1].TransmitTime = FracPerSecond
    /\ recvTime = 2 * FracPerSecond

\* C11 as stated: for t1 = 0, t2 = 1.0 s, t3 = 1.0 s, t4 = 2.0 s the
\* computed RoundTripDelay is exactly 1.0 s and the ClockOffset exactly 0.
C11_SyntheticAsStated ==
    C11_Synthetic
        => /\ Result.resp[1].RoundTripDelay = Second
           /\ Result.resp[1].ClockOffset = 0

\* C11 amended: for t1 = 0, t2 = 1.0 s, t3 = 1.0 s, t4 = 2.0 s the
\* computed RoundTripDelay is exactly 2.0 s, (2.0 - 0) - (1.0 - 1.0), and
\* the ClockOffset exactly 0.
C11_SyntheticDelayAndOffset ==
    C11_Synthetic
        => /\ Result.resp[1].RoundTripDelay = 2 * Second
           /\ Result.resp[1].ClockOffset = 0

C11_Witness ==
    /\ C11_Synthetic
    /\ Result.err = NoError
    /\ Result.resp[1].RoundTripDelay = 2 * Second

\* C13: the request handed to the transport has Mode = Client, Version =
\* the effective version (the requested 2, 3 or 4, or 4 when 0 was
\* requested) and LeapIndicator = NotInSync together in its header byte,
\* and the buffer passed to the transport is exactly 48 bytes.
C13_RequestHeader ==
    /\ (xmitMsg # Nil)
        => /\ getMode(xmitMsg[1]) = client
           /\ getVersion(xmitMsg[1]) = version
           /\ getLeap(xmitMsg[1]) = LeapNotInSync
    /\ (TransportCalls >= 1)
        => /\ Len(sent[1]) = 48
           /\ sent[1][1] % 8 = 3
           /\ (sent[1][1] \div 8) % 8 = (IF opt = 0 THEN 4 ELSE opt)
           /\ sent[1][1] \div 64 = 3
           /\ opt \in {0, 2, 3, 4}

C13_Witness ==
    /\ TransportCalls = 1
    /\ opt = 2
    /\ sent[1][1] = 3 * 64 + 2 * 8 + 3

\* the request was sent with the default version
C13_WitnessDefault ==
    /\ TransportCalls = 1
    /\ opt = 0
    /\ sent[1][1] = 3 * 64 + 4 * 8 + 3

\* getTime has returned without error
GetTimeSucceeded == pc \in {"returned", "done"} /\ err = NoError

\* C14: on every successful exchange the message returned by getTime has
\* OriginTime = the NTP form of the true local send instant xmitTime, the
\* returned receive timestamp is the NTP form of xmitTime + delta with
\* delta >= 0, and the overwrite of OriginTime comes after the origin
\* check: the reply as it was checked carried the on-wire TransmitTime in
\* OriginTime, and the overwrite changed nothing else.
C14_OriginCorrectedAfterCheck ==
    GetTimeSucceeded
        => /\ m # Nil
           /\ m[1].OriginTime = toNtpTime(xmitTime)
           /\ delta >= 0
           /\ recvTime = toNtpTime(xmitTime + delta)
           /\ Reply.OriginTime = OnWireTransmitTime
           /\ m[1] = [Reply EXCEPT !.OriginTime = toNtpTime(xmitTime)]

\* a successful exchange whose on-wire TransmitTime was random and is not
\* the send instant
C14_Witness ==
    /\ GetTimeSucceeded
    /\ rnd[1].ok
    /\ OnWireTransmitTime # toNtpTime(xmitTime)
    /\ m[1].OriginTime # Reply.OriginTime
    /\ delta > 0

\* C15: the TransmitTime placed in the request is the value read from the
\* secure random source whenever the read succeeded, and the NTP form of
\* the local clock at send time when it failed; in both paths the local
\* send instant xmitTime is recorded; and the reply's OriginTime is matched
\* against the on-wire TransmitTime, not against xmitTime.
C15_TransmitTimeSource ==
    /\ (xmitMsg # Nil)
        => /\ rnd[1].ok => xmitMsg[1].TransmitTime = rnd[1].bits
           /\ ~rnd[1].ok => xmitMsg[1].TransmitTime = toNtpTime(xmitTime)
           /\ (pc \in {"send", "decode", "check"}) => xmitTime = clock
    /\ (TransportCalls >= 1)
        => OnWireTransmitTime = xmitMsg[1].TransmitTime
    /\ GetTimeSucceeded => Reply.OriginTime = OnWireTransmitTime
    /\ (/\ pc \in {"returned", "done"}
        /\ Decoded
        /\ delta >= 0
        /\ getMode(Reply) = server
        /\ Reply.TransmitTime # 0
        /\ Reply.OriginTime # OnWireTransmitTime)
        => err = OriginMismatch

\* a reply that carries the send instant itself in OriginTime, while the
\* request carried a random value, is rejected
C15_Witness ==
    /\ Done
    /\ Decoded
    /\ rnd[1].ok
    /\ OnWireTransmitTime = rnd[1].bits
    /\ OnWireTransmitTime # toNtpTime(xmitTime)
    /\ Reply.OriginTime = toNtpTime(xmitTime)
    /\ err = OriginMismatch

\* the random source failed and the request carried the local clock
C15_WitnessFallback ==
    /\ GetTimeSucceeded
    /\ ~rnd[1].ok
    /\ OnWireTransmitTime = toNtpTime(xmitTime)

\* C17: if the local elapsed time between the recorded send instant and
\* the moment the reply has been decoded is negative, the query fails with
\* ClockRanBackwards and returns no Response, whatever the reply contains;
\* if it is zero or positive this check never fails.
C17_ClockRanBackwards ==
    (Done /\ Decoded)
        => /\ (delta < 0)
                => (FailedWithoutResponse /\ Result.err = ClockRanBackwards)
           /\ (delta >= 0) => Result.err # ClockRanBackwards

\* a reply that passes every reply check is rejected for a negative
\* elapsed time
C17_Witness ==
    /\ Done
    /\ Decoded
    /\ delta < 0
    /\ ReplyError(0, Reply, xmitMsg[1]) = NoError
    /\ Result.err = ClockRanBackwards

\* a zero elapsed time is accepted
C17_WitnessZero ==
    /\ Done
    /\ Decoded
    /\ delta = 0
    /\ Result.err = NoError

\* C18: failures are reported under the first rule that applies, in the
\* order InvalidVersion, transport or decode failure, ClockRanBackwards,
\* UnexpectedMode, InvalidTransmitTime, OriginMismatch,
\* ServerClockRanBackwards; a Response is returned only if none applies,
\* so success implies Mode = Server, TransmitTime # 0, OriginTime = the
\* sent TransmitTime and ReceiveTime <= TransmitTime.
C18_FailurePrecedence ==
    Done
        => /\ (version \notin {2, 3, 4}) => Result.err = InvalidVersion
           /\ (version \in {2, 3, 4} /\ (rawErr # NoError \/ ~Decoded))
                => Result.err \in {rawErr} \cup MalformedPacket
           /\ (version \in {2, 3, 4} /\ rawErr = NoError /\ Decoded)
                => err =
                     IF delta < 0 THEN ClockRanBackwards
                     ELSE IF getMode(Reply) # server THEN UnexpectedMode
                     ELSE IF Reply.TransmitTime = 0 THEN InvalidTransmitTime
                     ELSE IF Reply.OriginTime # OnWireTransmitTime
                          THEN OriginMismatch
                     ELSE IF Reply.ReceiveTime > Reply.TransmitTime
                          THEN ServerClockRanBackwards
                     ELSE NoError
           /\ (err = NoError)
                => /\ rawErr = NoError
                   /\ getMode(Reply) = server
                   /\ Reply.TransmitTime # 0
                   /\ Reply.OriginTime = OnWireTransmitTime
                   /\ Reply.ReceiveTime <= Reply.TransmitTime

\* C19: every invocation returns exactly one of a Response or an error: a
\* non-nil error comes with a nil Response (from getTime, with a nil
\* message and a zero receive timestamp), and a nil error comes with a
\* non-nil Response built from a reply that passed every check.
C19_ResponseXorError ==
    /\ (pc \in {"returned", "done"})
        => /\ (err # NoError) => (m = Nil /\ recvTime = 0)
           /\ (err = NoError)
                => /\ m # Nil
                   /\ Decoded
                   /\ delta >= 0
                   /\ getMode(Reply) = server
                   /\ Reply.TransmitTime # 0
                   /\ Reply.OriginTime = OnWireTransmitTime
                   /\ Reply.ReceiveTime <= Reply.TransmitTime
    /\ (Done /\ api \in QueryApis)
        => /\ Result.err = err
           /\ (Result.err # NoError) => Result.resp = Nil
           /\ (Result.err = NoError)
                => /\ Result.resp # Nil
                   /\ Result.resp[1] = parseTime(m[1], recvTime)

C19_Witness ==
    /\ Done
    /\ api = "QueryWithOptions"
    /\ Result.err = NoError
    /\ Result.resp # Nil

C19_WitnessError ==
    /\ Done
    /\ api = "Query"
    /\ Result.err = ServerClockRanBackwards
    /\ Result.resp = Nil

\* C12: two concurrent invocations, each with its own transport function,
\* do not interfere under any interleaving: what getTime returns to each
\* (the error, or the accepted reply with its corrected OriginTime and the
\* receive timestamp) is what getTime returns when it runs alone on what
\* this invocation read, and the origin check of each compares the reply
\* only with the TransmitTime that the same invocation sent.
C12_NoInterference ==
    \A p \in Procs :
        /\ (pc[p] \in {"returned", "done"})
            => /\ [m |-> m[p], recvTime |-> recvTime[p], err |-> err[p]]
                    = GetTimeAlone(opt[p], rnd[p], xmitTime[p], recBuf[p],
                                   delta[p])
               /\ (err[p] = NoError)
                    => recvMsg[p][1].OriginTime
                         = DecodeFields(sent[p][1]).TransmitTime
               /\ (/\ recvMsg[p] # Nil
                   /\ delta[p] >= 0
                   /\ recvMsg[p][1].OriginTime
                        # DecodeFields(sent[p][1]).TransmitTime)
                    => err[p] = OriginMismatch
        /\ (pc[p] = "done") => ret[p][1].err = err[p]

\* invocation 1 received the answer to the request of invocation 2, whose
\* TransmitTime differs from its own, and rejected it, while invocation 2
\* accepted the answer to its own request
C12_Witness ==
    /\ pc[1] = "done"
    /\ pc[2] = "done"
    /\ recvMsg[1] # Nil
    /\ xmitMsg[2] # Nil
    /\ recvMsg[1][1].OriginTime = xmitMsg[2][1].TransmitTime
    /\ xmitMsg[1][1].TransmitTime # xmitMsg[2][1].TransmitTime
    /\ delta[1] >= 0
    /\ err[1] = OriginMismatch
    /\ err[2] = NoError

\* C16: when the secure random source is available, the request bytes do
\* not depend on the local clock: two invocations with the same options
\* and the same random value hand byte-identical requests to their
\* transports, whatever the clock read when each was sent.
C16_RequestIndependentOfClock ==
    \A p \in Procs : \A q \in Procs :
        (/\ sent[p] # <<>>
         /\ sent[q] # <<>>
         /\ opt[p] = opt[q]
         /\ rnd[p][1].ok
         /\ rnd[q][1].ok
         /\ rnd[p][1].bits = rnd[q][1].bits)
            => sent[p] = sent[q]

\* two requests with the same random value, sent at different readings of
\* the local clock
C16_Witness ==
    /\ sent[1] # <<>>
    /\ sent[2] # <<>>
    /\ opt[1] = opt[2]
    /\ rnd[1][1].ok
    /\ rnd[2][1].ok
    /\ rnd[1][1].bits = rnd[2][1].bits
    /\ xmitTime[1] # xmitTime[2]
    /\ sent[1] = sent[2]

====
